---- MODULE Spec2Model ----
(***************************************************************************)
(* A model of synphony/for_clients: the episode allocator                  *)
(* (get_next_episode_number, copy_parquet_file), the augmentation invoker  *)
(* (augment_video), the frame sampler (extract_frames_from_video), the     *)
(* content describer (analyze_video_with_openai, generate_video_prompt),   *)
(* the dataset orchestrator (process_dataset,                              *)
(* orchestrate_video_generation) and the entry point (main).               *)
(*                                                                         *)
(* A file name is a sequence of tokens: the literals the code searches and *)
(* replaces ("episode_", ".mp4", ".parquet", ".txt") are one token each,   *)
(* every other character is a token of its own.  A directory is a function *)
(* from the names it holds to their contents (a number: the size of a      *)
(* video, the identity of a sidecar's rows).                               *)
(***************************************************************************)
EXTENDS Integers, Sequences, FiniteSets, TLC

(***************************************************************************)
(* Bounds of the model.                                                    *)
(***************************************************************************)
\* episodes one request may ask for (n_episodes ranges over 1..MaxEpisodes)
MaxEpisodes == 2
\* length of dataset_episodes_list
MaxDatasets == 2
\* episodes all the requests of one run may ask for together
MaxTotalEpisodes == 3
\* number of files a directory handed to the allocator alone may hold
MaxFiles == 3

(***************************************************************************)
(* File names.                                                             *)
(***************************************************************************)
\* the width of the zero-padded index in f"episode_{n:06d}"
IndexWidth == 6

EPISODE == "episode_"
MP4 == ".mp4"
PARQUET == ".parquet"
TXT == ".txt"

DigitChars == <<"0", "1", "2", "3", "4", "5", "6", "7", "8", "9">>

IsDigit(c) == \E d \in 1..10 : DigitChars[d] = c

DigitVal(c) == (CHOOSE d \in 1..10 : DigitChars[d] = c) - 1

RECURSIVE Digits(_)
\* str(k) for k >= 0
Digits(k) == IF k < 10 THEN <<DigitChars[k + 1]>>
             ELSE Digits(k \div 10) \o <<DigitChars[(k % 10) + 1]>>

RECURSIVE ZeroPad(_, _)
ZeroPad(s, w) == IF Len(s) >= w THEN s ELSE ZeroPad(<<"0">> \o s, w)

\* f"{k:06d}": the sign counts in the width
Format06d(k) == IF k >= 0 THEN ZeroPad(Digits(k), IndexWidth)
                ELSE <<"-">> \o ZeroPad(Digits(-k), IndexWidth - 1)

\* f"episode_{k:06d}<ext>"
EpisodeName(k, ext) == <<EPISODE>> \o Format06d(k) \o <<ext>>

\* str.replace(tok, ""): every occurrence goes
StrRemove(s, tok) == SelectSeq(s, LAMBDA t : t # tok)

RECURSIVE DigitsValue(_, _)
DigitsValue(s, acc) == IF s = <<>> THEN acc
                       ELSE DigitsValue(Tail(s), 10 * acc + DigitVal(Head(s)))

\* int(s): an optional sign, then one digit or more; anything else raises
\* ValueError (ok = FALSE)
ParseInt(s) ==
    LET body == IF s # <<>> /\ Head(s) = "-" THEN Tail(s) ELSE s
        good == body # <<>> /\ \A j \in 1..Len(body) : IsDigit(body[j])
    IN  IF ~good THEN [ok |-> FALSE, val |-> 0]
        ELSE [ok |-> TRUE,
              val |-> IF Head(s) = "-" THEN 0 - DigitsValue(body, 0)
                      ELSE DigitsValue(body, 0)]

StartsWith(s, p) == Len(s) >= Len(p) /\ SubSeq(s, 1, Len(p)) = p

EndsWith(s, tok) == s # <<>> /\ s[Len(s)] = tok

\* glob "episode_*.mp4" on one name
MatchesEpisodeMp4(name) == Len(name) >= 2 /\ Head(name) = EPISODE /\ EndsWith(name, MP4)

\* the names glob.glob(os.path.join(folder, "episode_*.mp4")) finds
GlobEpisodeMp4(dir) == {f \in DOMAIN dir : MatchesEpisodeMp4(f)}

\* every order in which a directory scan may list a set of names
Listings(S) == {q \in [1..Cardinality(S) -> S] : \A a, b \in 1..Cardinality(S) : q[a] = q[b] => a = b}

(***************************************************************************)
(* Episode allocator.                                                      *)
(***************************************************************************)
RECURSIVE SeqMax(_)
SeqMax(s) == IF Len(s) = 1 THEN s[1]
             ELSE LET m == SeqMax(Tail(s)) IN IF s[1] > m THEN s[1] ELSE m

RECURSIVE EpisodeNumbers(_, _)
\* the loop of get_next_episode_number: episode_numbers after the files are read
EpisodeNumbers(files, acc) ==
    IF files = <<>> THEN acc
    ELSE LET episode_num == StrRemove(StrRemove(Head(files), EPISODE), MP4)
             p == ParseInt(episode_num)
         IN  EpisodeNumbers(Tail(files), IF p.ok THEN Append(acc, p.val) ELSE acc)

\* a slip: the number of episode files instead of the largest index plus one
get_next_episode_number_count(existing_files) ==
    Len(EpisodeNumbers(existing_files, <<>>))

\* get_next_episode_number, given what glob returned
get_next_episode_number(existing_files) ==
    IF existing_files = <<>> THEN 0
    ELSE LET episode_numbers == EpisodeNumbers(existing_files, <<>>)
         IN  IF episode_numbers # <<>> THEN SeqMax(episode_numbers) + 1 ELSE 0

(***************************************************************************)
(* The file system.  fs maps each existing directory (a path) to what it   *)
(* holds.  A dataset's directories are <<ds, "data">>, <<ds, "videos">>    *)
(* and one <<ds, "videos", folder>> per folder under videos/chunk-000.     *)
(***************************************************************************)
DataPath(ds) == <<ds, "data">>

VideosPath(ds) == <<ds, "videos">>

SubPath(parent, d) == Append(parent, d)

Exists(files, path, name) == path \in DOMAIN files /\ name \in DOMAIN files[path]

\* the directory with one file written (created or overwritten)
WriteFile(dir, name, content) ==
    [f \in DOMAIN dir \cup {name} |-> IF f = name THEN content ELSE dir[f]]

RemoveFiles(dir, names) == [f \in DOMAIN dir \ names |-> dir[f]]

\* what a copy that failed after opening its destination leaves there
Truncated == 0

\* how shutil.copy2 may end: done, raised before it touched the destination,
\* raised with the destination opened and not filled
CopyOutcomes == {"copied", "raised", "raised_partial"}

\* a slip: no test that the source exists, an empty destination is written
copy_parquet_file_unchecked(files, src_episode_num, dest_episode_num, data_folder, outcome) ==
    LET src_parquet == EpisodeName(src_episode_num, PARQUET)
        dest_parquet == EpisodeName(dest_episode_num, PARQUET)
        content == IF Exists(files, data_folder, src_parquet)
                   THEN files[data_folder][src_parquet] ELSE Truncated
    IN  IF data_folder \notin DOMAIN files THEN [ret |-> FALSE, fs |-> files]
        ELSE [ret |-> TRUE,
              fs |-> [files EXCEPT ![data_folder] = WriteFile(@, dest_parquet, content)]]

\* copy_parquet_file: the value returned and the file system left
copy_parquet_file(files, src_episode_num, dest_episode_num, data_folder, outcome) ==
    LET src_parquet == EpisodeName(src_episode_num, PARQUET)
        dest_parquet == EpisodeName(dest_episode_num, PARQUET)
    IN  IF Exists(files, data_folder, src_parquet)
        THEN IF src_parquet = dest_parquet
             THEN \* shutil.copy2 raises SameFileError
                  [ret |-> FALSE, fs |-> files]
             ELSE IF outcome = "copied"
             THEN [ret |-> TRUE,
                   fs |-> [files EXCEPT ![data_folder] =
                              WriteFile(@, dest_parquet, files[data_folder][src_parquet])]]
             ELSE IF outcome = "raised_partial"
             THEN [ret |-> FALSE,
                   fs |-> [files EXCEPT ![data_folder] = WriteFile(@, dest_parquet, Truncated)]]
             ELSE [ret |-> FALSE, fs |-> files]
        ELSE [ret |-> FALSE, fs |-> files]

(***************************************************************************)
(* Augmentation invoker.  The external tool is opaque: env says how the    *)
(* call's surroundings behave.                                             *)
(*   setup_raises   an exception before the tool has run (chdir, the port, *)
(*                  the launch)                                            *)
(*   returncode     the tool's exit status                                 *)
(*   writes         which files the tool leaves in the save folder, named  *)
(*                  after --video_save_name: "video" name.mp4, "double"    *)
(*                  name.mp4.mp4, "txt" name.txt                           *)
(*   size           the size of a video it writes                          *)
(*   rename_raises  os.rename raises                                       *)
(*   remove_fails   the files os.remove cannot remove                      *)
(***************************************************************************)
\* output_name with a trailing ".mp4" cut (lines 48-50)
VideoSaveName(output_name) ==
    IF EndsWith(output_name, MP4) THEN SubSeq(output_name, 1, Len(output_name) - 1)
    ELSE output_name

\* os.path.splitext(name)[0]: the last extension goes
SplitExtRoot(name) ==
    IF Len(name) >= 2 /\ name[Len(name)] \in {MP4, PARQUET, TXT}
    THEN SubSeq(name, 1, Len(name) - 1) ELSE name

ToolFile(save_name, kind) ==
    CASE kind = "video" -> save_name \o <<MP4>>
      [] kind = "double" -> save_name \o <<MP4, MP4>>
      [] kind = "txt" -> save_name \o <<TXT>>

\* the save folder after the tool has run
ToolRun(dir, save_name, env) ==
    [f \in DOMAIN dir \cup {ToolFile(save_name, k) : k \in env.writes} |->
        IF \E k \in env.writes : ToolFile(save_name, k) = f
        THEN (IF EndsWith(f, TXT) THEN 1 ELSE env.size)
        ELSE dir[f]]

\* glob f"{video_basename}*.txt" in the output directory
GlobTxt(dir, video_basename) ==
    {f \in DOMAIN dir : StartsWith(f, video_basename) /\ Len(f) > Len(video_basename)
                        /\ EndsWith(f, TXT)}

\* a slip: the clean-up of the .txt files left out
CleanupTxt_none(dir, video_basename, remove_fails) == dir

\* lines 92-103: every matching .txt file is removed, unless os.remove fails on it
CleanupTxt(dir, video_basename, remove_fails) ==
    RemoveFiles(dir, GlobTxt(dir, video_basename) \ remove_fails)

\* a slip: the doubled-extension file is accepted where it lies
RenameFile_none(dir, from, to) == dir

\* os.rename(from, to) within one directory
RenameFile(dir, from, to) ==
    [f \in (DOMAIN dir \ {from}) \cup {to} |-> IF f = to THEN dir[from] ELSE dir[f]]

\* a slip: the exit status of the tool is not looked at
augment_video_any_status(files, output_dir, output_name, env) ==
    IF env.setup_raises
    THEN [ret |-> FALSE, fs |-> files]
    ELSE LET ran == ToolRun(files[output_dir], VideoSaveName(output_name), env)
             double_ext_path == output_name \o <<MP4>>
             video_basename == SplitExtRoot(output_name)
             after(dir) == [files EXCEPT ![output_dir] = dir]
         IN  IF output_name \in DOMAIN ran
             THEN [ret |-> TRUE,
                   fs |-> after(CleanupTxt(ran, video_basename, env.remove_fails))]
             ELSE IF double_ext_path \in DOMAIN ran /\ ~env.rename_raises
             THEN [ret |-> TRUE,
                   fs |-> after(CleanupTxt(RenameFile(ran, double_ext_path, output_name),
                                           video_basename, env.remove_fails))]
             ELSE [ret |-> FALSE, fs |-> after(ran)]

\* augment_video(prompt, input_video_path, output_video_path) with
\* output_video_path = output_dir/output_name, output_dir an existing
\* folder: the value returned and the file system left
augment_video(files, output_dir, output_name, env) ==
    IF env.setup_raises
    THEN [ret |-> FALSE, fs |-> files]
    ELSE LET ran == ToolRun(files[output_dir], VideoSaveName(output_name), env)
             double_ext_path == output_name \o <<MP4>>
             video_basename == SplitExtRoot(output_name)
             after(dir) == [files EXCEPT ![output_dir] = dir]
         IN  IF env.returncode = 0
             THEN IF output_name \in DOMAIN ran
                  THEN [ret |-> TRUE,
                        fs |-> after(CleanupTxt(ran, video_basename, env.remove_fails))]
                  ELSE IF double_ext_path \in DOMAIN ran
                  THEN IF env.rename_raises
                       THEN [ret |-> FALSE, fs |-> after(ran)]
                       ELSE [ret |-> TRUE,
                             fs |-> after(CleanupTxt(RenameFile(ran, double_ext_path, output_name),
                                                     video_basename, env.remove_fails))]
                  ELSE [ret |-> FALSE, fs |-> after(ran)]
             ELSE [ret |-> FALSE, fs |-> after(ran)]

(***************************************************************************)
(* State.                                                                  *)
(*   fs                      the file system                               *)
(*   pc                      where the run stands                          *)
(*   dataset_episodes_list, ds_idx, success_count, run_result              *)
(*                           orchestrate_video_generation's locals; ds_idx *)
(*                           is the position of its for loop               *)
(*   dataset_name .. total_attempts                                        *)
(*                           process_dataset's locals; i is the index of   *)
(*                           the loop it is in, cam_idx the position of    *)
(*                           the inner loop over observation_folders,      *)
(*                           prompt the text last derived for a video      *)
(*   pd_ret                  how the last process_dataset call ended       *)
(* History, read by the properties only:                                   *)
(*   fs0                     the file system when the current (or last)    *)
(*                           call began                                    *)
(*   log                     what that call did, in order                  *)
(*   processed               the datasets the run has handed to            *)
(*                           process_dataset, in order, each with how its  *)
(*                           call ended and the indices it wrote           *)
(*   call, ret               arguments and result of a function called on  *)
(*                           its own                                       *)
(***************************************************************************)
VARIABLES fs, pc, dataset_episodes_list, ds_idx, success_count, run_result,
          dataset_name, n_episodes, observation_folders, next_episode_num,
          i, cam_idx, total_success, total_attempts, prompt, pd_ret,
          fs0, log, processed, call, ret

orch_vars == <<dataset_episodes_list, ds_idx, success_count, run_result, processed>>
pd_vars == <<dataset_name, n_episodes, observation_folders, next_episode_num,
             i, cam_idx, total_success, total_attempts, prompt, pd_ret, fs0, log>>
unit_vars == <<call, ret>>
vars == <<fs, pc, orch_vars, pd_vars, unit_vars>>

(***************************************************************************)
(* Initial file systems.                                                   *)
(***************************************************************************)
DatasetNames == {"so101_test"}
\* a name no directory under DATASETS_BASE has
MissingDataset == "absent"

CameraFolders == {"observation.images.front", "observation.images.wrist"}
\* a folder of videos/chunk-000 that is no camera stream
OtherFolder == "depth"

\* d.startswith("observation.images.")
IsObservationFolder(d) == d \in CameraFolders

\* the rows of source sidecar k
SidecarContent(k) == 10 + k

EmptyDir == [f \in {} |-> 0]

SidecarDir(S) == [f \in {EpisodeName(k, PARQUET) : k \in S} |->
                    SidecarContent(CHOOSE k \in S : EpisodeName(k, PARQUET) = f)]

VideoDir(S) == [f \in {EpisodeName(k, MP4) : k \in S} |-> 1]

SourceIndices == 0..(MaxEpisodes - 1)

\* one dataset: its sidecars, and for each camera folder it has, its videos
DatasetTree(ds, sidecars, videos) ==
    [p \in {DataPath(ds), VideosPath(ds), SubPath(VideosPath(ds), OtherFolder)}
           \cup {SubPath(VideosPath(ds), c) : c \in DOMAIN videos} |->
        IF p = DataPath(ds) THEN SidecarDir(sidecars)
        ELSE IF Len(p) = 3 /\ p[3] \in DOMAIN videos THEN VideoDir(videos[p[3]])
        ELSE EmptyDir]

InitTrees ==
    {DatasetTree(ds, sidecars, videos) :
        ds \in DatasetNames,
        sidecars \in SUBSET SourceIndices,
        videos \in UNION {[C -> SUBSET SourceIndices] : C \in SUBSET CameraFolders}}

Requests == {<<ds, n>> : ds \in DatasetNames \cup {MissingDataset}, n \in 1..MaxEpisodes}

RECURSIVE TotalEpisodes(_)
TotalEpisodes(list) == IF list = <<>> THEN 0 ELSE Head(list)[2] + TotalEpisodes(Tail(list))

ArgLists == {list \in UNION {[1..len -> Requests] : len \in 1..MaxDatasets} :
                TotalEpisodes(list) <= MaxTotalEpisodes}

NoCall == [fn |-> "none"]

PdInit ==
    /\ dataset_name = "" /\ n_episodes = 0 /\ observation_folders = <<>>
    /\ next_episode_num = 0 /\ i = 0 /\ cam_idx = 0
    /\ total_success = 0 /\ total_attempts = 0 /\ pd_ret = "none"
    /\ prompt = <<>>
    /\ log = <<>>

Init ==
    /\ fs \in InitTrees
    /\ fs0 = fs
    /\ pc = "orchestrate"
    /\ dataset_episodes_list \in ArgLists
    /\ ds_idx = 1 /\ success_count = 0 /\ run_result = "none" /\ processed = <<>>
    /\ PdInit
    /\ call = NoCall /\ ret = NoCall

(***************************************************************************)
(* Frame sampler: extract_frames_from_video(video_path, num_frames).  env  *)
(* says how the surroundings behaved:                                      *)
(*   mkdtemp_raises tempfile.mkdtemp raises                                *)
(*   probe          ffprobe: "ok" (exit status 0), "failed" (another       *)
(*                  status), "raises" (it could not be launched)           *)
(*   stdout         what ffprobe printed                                   *)
(*   frames         for each timestamp, how its extraction went: "ok",     *)
(*                  "failed" (ffmpeg's status not 0, no file), "unreadable"*)
(*                  (a file that cv2.imread cannot load), "raises" (ffmpeg *)
(*                  could not be launched)                                 *)
(*   rmtree_raises  shutil.rmtree raises                                   *)
(***************************************************************************)
NEWLINE == "\n"
FRAME == "frame_"
JPG == ".jpg"

\* the directory tempfile.mkdtemp() makes
TempDir == <<"tmp", "tmpdir">>

RECURSIVE LStrip(_)
LStrip(s) == IF s # <<>> /\ Head(s) = NEWLINE THEN LStrip(Tail(s)) ELSE s

RECURSIVE RStrip(_)
RStrip(s) == IF s # <<>> /\ s[Len(s)] = NEWLINE THEN RStrip(SubSeq(s, 1, Len(s) - 1)) ELSE s

\* str.strip()
Strip(s) == LStrip(RStrip(s))

RECURSIVE Pow10(_)
Pow10(k) == IF k = 0 THEN 1 ELSE 10 * Pow10(k - 1)

\* float(s) on a plain decimal text: an optional sign, digits, at most one
\* point, one digit at least; the value is num / den.  Anything else raises
\* ValueError (ok = FALSE)
ParseFloat(s) ==
    LET neg == s # <<>> /\ Head(s) = "-"
        body == IF neg THEN Tail(s) ELSE s
        dots == {j \in 1..Len(body) : body[j] = "."}
        dot == IF dots = {} THEN Len(body) + 1 ELSE CHOOSE j \in dots : TRUE
        whole == SubSeq(body, 1, dot - 1)
        frac == SubSeq(body, dot + 1, Len(body))
        good == /\ Cardinality(dots) <= 1
                /\ whole \o frac # <<>>
                /\ \A j \in 1..Len(whole) : IsDigit(whole[j])
                /\ \A j \in 1..Len(frac) : IsDigit(frac[j])
        mag == DigitsValue(whole \o frac, 0)
    IN  IF ~good THEN [ok |-> FALSE, num |-> 0, den |-> 1]
        ELSE [ok |-> TRUE, num |-> IF neg THEN 0 - mag ELSE mag, den |-> Pow10(Len(frac))]

\* f"frame_{k:03d}.jpg"
FrameName(k) == <<FRAME>> \o ZeroPad(Digits(k), 3) \o <<JPG>>

\* a slip: the timestamps run from duration / num_frames to duration
TimePos_from_one(idx, duration, num_frames) ==
    [num |-> (idx + 1) * duration.num, den |-> duration.den * num_frames]

\* idx * duration / num_frames (line 46), as the fraction num / den
TimePos(idx, duration, num_frames) ==
    [num |-> idx * duration.num, den |-> duration.den * num_frames]

\* time_intervals of line 46
TimeIntervals(duration, num_frames) ==
    [k \in 1..num_frames |-> TimePos(k - 1, duration, num_frames)]

\* a slip: the temporary directory is left behind
RemoveTree_keep(files, path) == files

\* shutil.rmtree(path)
RemoveTree(files, path) == [p \in DOMAIN files \ {path} |-> files[p]]

\* tempfile.mkdtemp(): a new, empty directory
MakeTempDir(files) ==
    [p \in DOMAIN files \cup {TempDir} |-> IF p = TempDir THEN EmptyDir ELSE files[p]]

RECURSIVE ExtractLoop(_, _, _, _)
\* lines 49-67 from turn k on.  st holds frames, the requests issued, the
\* temporary directory's content, and whether an exception ended the loop
ExtractLoop(k, time_intervals, outcomes, st) ==
    IF k > Len(time_intervals) THEN st
    ELSE IF outcomes[k] = "raises" THEN [st EXCEPT !.raised = TRUE]
    ELSE LET asked == Append(st.requests,
                             [op |-> "ffmpeg", idx |-> k - 1, ss |-> time_intervals[k]])
             written == WriteFile(st.dir, FrameName(k - 1), 1)
         IN  ExtractLoop(k + 1, time_intervals, outcomes,
                 CASE outcomes[k] = "ok" ->
                        [st EXCEPT !.requests = asked, !.dir = written,
                                   !.frames = Append(st.frames, [idx |-> k - 1, size |-> 1])]
                   [] outcomes[k] = "unreadable" ->
                        [st EXCEPT !.requests = asked, !.dir = written]
                   [] OTHER -> [st EXCEPT !.requests = asked])

\* extract_frames_from_video: the frames returned (each with the index of
\* its timestamp and its size), the tools run, and the file system left
extract_frames_from_video(files, num_frames, env) ==
    IF env.mkdtemp_raises
    THEN [ret |-> <<>>, requests |-> <<>>, fs |-> files]
    ELSE LET made == MakeTempDir(files)
             \* lines 79-85: the finally clause
             finally(after) == IF TempDir \in DOMAIN after /\ ~env.rmtree_raises
                               THEN RemoveTree(after, TempDir) ELSE after
             probe == <<[op |-> "ffprobe"]>>
             duration == ParseFloat(Strip(env.stdout))
         IN  IF env.probe = "raises"
             THEN [ret |-> <<>>, requests |-> <<>>, fs |-> finally(made)]
             ELSE IF env.probe # "ok" \/ ~duration.ok \/ duration.num <= 0
             THEN [ret |-> <<>>, requests |-> probe, fs |-> finally(made)]
             ELSE LET st == ExtractLoop(1, TimeIntervals(duration, num_frames), env.frames,
                                        [frames |-> <<>>, requests |-> probe,
                                         dir |-> EmptyDir, raised |-> FALSE])
                  IN  [ret |-> IF st.raised THEN <<>> ELSE st.frames,
                       requests |-> st.requests,
                       fs |-> finally([made EXCEPT ![TempDir] = st.dir])]

(***************************************************************************)
(* Content describer: analyze_video_with_openai(frames) and                *)
(* generate_video_prompt(video_path).  A frame is its timestamp's index    *)
(* and its size; None is NoFrame.  Texts are sequences of tokens.  env     *)
(* says how the surroundings behaved:                                      *)
(*   encode_fails   the positions of frames at which encode_frame_to_base64*)
(*                  returns None                                           *)
(*   service        the vision-language service: "ok", or the request      *)
(*                  fails ("network", "quota"), or its answer cannot be    *)
(*                  read ("malformed")                                     *)
(*   content        the text of the answer                                 *)
(***************************************************************************)
\* the frames generate_video_prompt asks for
NumFrames == 6

NoFrame == [idx |-> -1, size |-> 0]

\* the string returned when there is nothing to send (lines 102, 127)
FallbackNoFrames == <<"a video sequence">>
\* the string returned on an exception, without a credential, or without
\* frames (lines 164, 170, 177)
FallbackPrompt == <<"a video sequence with robotic manipulation tasks">>

ServiceOutcomes == {"ok", "network", "quota", "malformed"}

RECURSIVE EncodeLoop(_, _, _, _)
\* lines 108-123 from position k on: invalid frames and frames that do not
\* encode are skipped
EncodeLoop(k, frames, encode_fails, encoded_frames) ==
    IF k > Len(frames) THEN encoded_frames
    ELSE EncodeLoop(k + 1, frames, encode_fails,
             IF frames[k] = NoFrame \/ frames[k].size = 0 \/ k \in encode_fails
             THEN encoded_frames
             ELSE Append(encoded_frames, [type |-> "image_url", idx |-> frames[k].idx]))

\* a slip: the request is sent again after a failure
ServiceFailure_retry(requests) ==
    [ret |-> FallbackPrompt, raised |-> FALSE, requests |-> requests \o requests]

\* a slip: the failure of the request is not caught
ServiceFailure_propagate(requests) ==
    [ret |-> <<>>, raised |-> TRUE, requests |-> requests]

\* lines 162-164: an exception of the request, or of reading its answer, is
\* caught and the fallback returned
ServiceFailure(requests) ==
    [ret |-> FallbackPrompt, raised |-> FALSE, requests |-> requests]

\* encoded_frames of lines 107-123
EncodeFrames(frames, encode_fails) == EncodeLoop(1, frames, encode_fails, <<>>)

\* analyze_video_with_openai(frames): what it returns, whether an exception
\* leaves it, and the requests it made to the service
analyze_video_with_openai(frames, env) ==
    IF frames = <<>>
    THEN [ret |-> FallbackNoFrames, raised |-> FALSE, requests |-> <<>>]
    ELSE LET encoded_frames == EncodeFrames(frames, env.encode_fails)
             request == [op |-> "chat", model |-> "gpt-4o", frames |-> encoded_frames]
         IN  IF encoded_frames = <<>>
             THEN [ret |-> FallbackNoFrames, raised |-> FALSE, requests |-> <<>>]
             ELSE IF env.service = "ok"
             THEN [ret |-> Strip(env.content), raised |-> FALSE, requests |-> <<request>>]
             ELSE ServiceFailure(<<request>>)

\* generate_video_prompt(video_path): env.api_key says whether OPENAI_API_KEY
\* is set, env.sampler and env.describer are the surroundings of the two calls
generate_video_prompt(files, env) ==
    IF ~env.api_key
    THEN [ret |-> FallbackPrompt, raised |-> FALSE, requests |-> <<>>, fs |-> files]
    ELSE LET x == extract_frames_from_video(files, NumFrames, env.sampler)
         IN  IF x.ret # <<>>
             THEN LET a == analyze_video_with_openai(x.ret, env.describer)
                  IN  [ret |-> a.ret, raised |-> a.raised,
                       requests |-> x.requests \o a.requests, fs |-> x.fs]
             ELSE [ret |-> FallbackPrompt, raised |-> FALSE,
                   requests |-> x.requests, fs |-> x.fs]

(***************************************************************************)
(* Dataset orchestrator.                                                   *)
(***************************************************************************)
\* how the tool may behave when the orchestrator runs it: a video and its
\* .txt written, nothing written and a failure reported, a failure reported
\* with a video left behind
OrchEnvs ==
    {[setup_raises |-> FALSE, returncode |-> 0, writes |-> {"video", "txt"}, size |-> 1,
      rename_raises |-> FALSE, remove_fails |-> {}],
     [setup_raises |-> FALSE, returncode |-> 1, writes |-> {}, size |-> 1,
      rename_raises |-> FALSE, remove_fails |-> {}],
     [setup_raises |-> FALSE, returncode |-> 1, writes |-> {"video"}, size |-> 0,
      rename_raises |-> FALSE, remove_fails |-> {}]}

\* how the derivation of a prompt may go when the orchestrator asks for one:
\* six frames extracted and described, or the request to the service failing
OrchPromptEnvs ==
    {[api_key |-> TRUE,
      sampler |-> [mkdtemp_raises |-> FALSE, probe |-> "ok", stdout |-> <<"4", NEWLINE>>,
                   frames |-> [k \in 1..NumFrames |-> "ok"], rmtree_raises |-> FALSE],
      describer |-> [encode_fails |-> {}, service |-> service,
                     content |-> <<"a robot arm stacks rings", NEWLINE>>]] :
        service \in {"ok", "network"}}

\* the copies the orchestrator's sidecar phase may see
OrchCopyOutcomes == {"copied", "raised"}

\* the folders of videos/chunk-000 that pass the filter of lines 80-81
ObservationFolderSet(files, videos_path) ==
    {d \in CameraFolders \cup {OtherFolder} :
        SubPath(videos_path, d) \in DOMAIN files /\ IsObservationFolder(d)}

\* a slip: only the first source sidecar is validated
ValidateLoopDone_first(k, n) == k >= 1

\* range(n_episodes) of the validation loop (line 93) is exhausted
ValidateLoopDone(k, n) == k >= n

\* a slip: the copy loop stops after one sidecar
CopyLoopDone_first(k, n) == k >= 1

\* range(n_episodes) of the copy loop (line 105) is exhausted
CopyLoopDone(k, n) == k >= n

\* range(n_episodes) of the generation loop (line 116) is exhausted
GenerateLoopDone(k, n) == k >= n

\* dest_episode of the copy loop (line 107)
CopyDestEpisode(next, k) == next + k

\* a slip: the generation loop numbers its videos from the source index
GenDestEpisode_src(next, k) == k

\* dest_episode of the generation loop (line 118)
GenDestEpisode(next, k) == next + k

\* a slip: a pair whose source video is missing is counted as an attempt
CountAttempt_always(attempts, src_exists) == attempts + 1

\* total_attempts after a pair is visited (lines 129-133)
CountAttempt(attempts, src_exists) == IF src_exists THEN attempts + 1 ELSE attempts

\* process_dataset's result (line 158)
DatasetSuccess(successes, attempts) == successes = attempts

\* a slip: the run stops at the first dataset that fails
NextDataset_stop(idx, total, success) == IF success THEN idx + 1 ELSE total + 1

\* the for loop of orchestrate_video_generation moves on (line 172)
NextDataset(idx, total, success) == idx + 1

\* the destination indices at which a call wrote a sidecar or a video
UsedIndices(done) ==
    {done[k].dest : k \in {e \in 1..Len(done) : done[e].op \in {"copy", "gen"} /\ done[e].ok}}

\* process_dataset returns `how` ("True", "False", or "raised" for an
\* exception): lines 178-186 of the caller count it and the loop moves on.
\* started is the history with the current dataset's entry last; the entry
\* keeps how the call ended and the indices it wrote.
Return(how, started) ==
    /\ pd_ret' = how
    /\ processed' = [started EXCEPT ![Len(started)].ret = how,
                                    ![Len(started)].used = UsedIndices(log')]
    /\ success_count' = IF how = "True" THEN success_count + 1 ELSE success_count
    /\ ds_idx' = NextDataset(ds_idx, Len(dataset_episodes_list), how = "True")
    /\ pc' = "orchestrate"
    /\ UNCHANGED <<dataset_episodes_list, run_result>>

\* lines 172-89: the next dataset is handed to process_dataset, which checks
\* its directories and lists its camera folders
StartDataset ==
    /\ pc = "orchestrate"
    /\ ds_idx <= Len(dataset_episodes_list)
    /\ LET name == dataset_episodes_list[ds_idx][1]
           n == dataset_episodes_list[ds_idx][2]
           started == Append(processed, [name |-> name, ret |-> "running", used |-> {}])
       IN  /\ dataset_name' = name
           /\ n_episodes' = n
           /\ fs0' = fs
           /\ log' = <<>>
           /\ i' = 0 /\ cam_idx' = 0 /\ next_episode_num' = 0
           /\ total_success' = 0 /\ total_attempts' = 0
           /\ prompt' = <<>>
           /\ UNCHANGED <<fs, unit_vars>>
           /\ IF VideosPath(name) \notin DOMAIN fs \/ DataPath(name) \notin DOMAIN fs
              THEN observation_folders' = <<>> /\ Return("False", started)
              ELSE \E listdir_raises \in BOOLEAN :
                      IF listdir_raises
                      THEN observation_folders' = <<>> /\ Return("raised", started)
                      ELSE \E folders \in Listings(ObservationFolderSet(fs, VideosPath(name))) :
                              /\ observation_folders' = folders
                              /\ IF folders = <<>>
                                 THEN Return("False", started)
                                 ELSE /\ pc' = "validate"
                                      /\ pd_ret' = "none"
                                      /\ processed' = started
                                      /\ UNCHANGED <<dataset_episodes_list, ds_idx,
                                                     success_count, run_result>>

\* lines 93-97: one turn of the validation loop
ValidateStep ==
    /\ pc = "validate"
    /\ ~ValidateLoopDone(i, n_episodes)
    /\ IF Exists(fs, DataPath(dataset_name), EpisodeName(i, PARQUET))
       THEN /\ i' = i + 1
            /\ log' = log
            /\ UNCHANGED <<pc, pd_ret, orch_vars>>
       ELSE /\ log' = Append(log, [op |-> "abort", src |-> i])
            /\ i' = i
            /\ Return("False", processed)
    /\ UNCHANGED <<fs, fs0, dataset_name, prompt, n_episodes, observation_folders, next_episode_num,
                   cam_idx, total_success, total_attempts, unit_vars>>

\* lines 99-103: validation passed; the next episode number is read from the
\* first camera folder
ValidateDone ==
    /\ pc = "validate"
    /\ ValidateLoopDone(i, n_episodes)
    /\ LET first_obs_path == SubPath(VideosPath(dataset_name), observation_folders[1])
       IN  \E existing_files \in Listings(GlobEpisodeMp4(fs[first_obs_path])) :
               next_episode_num' = get_next_episode_number(existing_files)
    /\ i' = 0
    /\ pc' = "copy"
    /\ UNCHANGED <<fs, fs0, log, dataset_name, prompt, n_episodes, observation_folders, cam_idx,
                   total_success, total_attempts, pd_ret, orch_vars, unit_vars>>

\* lines 105-108: one turn of the copy loop; what copy_parquet_file returns
\* is dropped
CopyStep ==
    /\ pc = "copy"
    /\ ~CopyLoopDone(i, n_episodes)
    /\ \E outcome \in OrchCopyOutcomes :
          LET dest_episode == CopyDestEpisode(next_episode_num, i)
              r == copy_parquet_file(fs, i, dest_episode, DataPath(dataset_name), outcome)
          IN  /\ fs' = r.fs
              /\ log' = Append(log, [op |-> "copy", src |-> i, dest |-> dest_episode,
                                     ok |-> r.ret])
    /\ i' = i + 1
    /\ UNCHANGED <<pc, fs0, dataset_name, prompt, n_episodes, observation_folders, next_episode_num,
                   cam_idx, total_success, total_attempts, pd_ret, orch_vars, unit_vars>>

\* lines 110-116: the copy loop is over, the generation loops begin
CopyDone ==
    /\ pc = "copy"
    /\ CopyLoopDone(i, n_episodes)
    /\ pc' = "generate"
    /\ i' = 0 /\ cam_idx' = 1
    /\ total_success' = 0 /\ total_attempts' = 0
    /\ UNCHANGED <<fs, fs0, log, dataset_name, prompt, n_episodes, observation_folders,
                   next_episode_num, pd_ret, orch_vars, unit_vars>>

\* the inner loop moves to the next camera, the outer one to the next
\* episode after the last camera (lines 116, 122)
NextPair ==
    /\ IF cam_idx < Len(observation_folders)
       THEN cam_idx' = cam_idx + 1 /\ i' = i
       ELSE cam_idx' = 1 /\ i' = i + 1
    /\ UNCHANGED <<pc, pd_ret, orch_vars>>

\* lines 122-155: one (episode, camera) pair.  The prompt is derived outside
\* the try of line 141: an exception leaving generate_video_prompt would
\* leave process_dataset
GenerateStep ==
    /\ pc = "generate"
    /\ ~GenerateLoopDone(i, n_episodes)
    /\ LET obs_folder == observation_folders[cam_idx]
           obs_path == SubPath(VideosPath(dataset_name), obs_folder)
           dest_episode == GenDestEpisode(next_episode_num, i)
           src_exists == Exists(fs, obs_path, EpisodeName(i, MP4))
       IN  /\ total_attempts' = CountAttempt(total_attempts, src_exists)
           /\ IF ~src_exists
              THEN /\ log' = Append(log, [op |-> "skip", src |-> i, cam |-> obs_folder])
                   /\ UNCHANGED <<fs, total_success, prompt>>
                   /\ NextPair
              ELSE \E penv \in OrchPromptEnvs :
                      \E described \in {generate_video_prompt(fs, penv)} :
                          IF described.raised
                          THEN /\ fs' = described.fs
                               /\ UNCHANGED <<total_success, prompt, log, i, cam_idx>>
                               /\ Return("raised", processed)
                          ELSE /\ prompt' = described.ret
                               /\ \E env \in OrchEnvs :
                                     LET r == augment_video(described.fs, obs_path,
                                                            EpisodeName(dest_episode, MP4), env)
                                     IN  /\ fs' = r.fs
                                         /\ total_success' = IF r.ret THEN total_success + 1
                                                             ELSE total_success
                                         /\ log' = Append(log, [op |-> "gen", src |-> i,
                                                                cam |-> obs_folder,
                                                                dest |-> dest_episode,
                                                                ok |-> r.ret])
                               /\ NextPair
    /\ UNCHANGED <<fs0, dataset_name, n_episodes, observation_folders, next_episode_num,
                   unit_vars>>

\* lines 157-158: the counts are compared and process_dataset returns
ProcessDatasetReturn ==
    /\ pc = "generate"
    /\ GenerateLoopDone(i, n_episodes)
    /\ UNCHANGED <<fs, fs0, log, dataset_name, prompt, n_episodes, observation_folders,
                   next_episode_num, i, cam_idx, total_success, total_attempts, unit_vars>>
    /\ Return(IF DatasetSuccess(total_success, total_attempts) THEN "True" ELSE "False",
              processed)

\* lines 188-196: every dataset was handled; the run's result
OrchestrateReturn ==
    /\ pc = "orchestrate"
    /\ ds_idx > Len(dataset_episodes_list)
    /\ run_result' = IF success_count = Len(dataset_episodes_list) THEN "True" ELSE "False"
    /\ pc' = "done"
    /\ UNCHANGED <<fs, dataset_episodes_list, ds_idx, success_count, processed,
                   pd_vars, unit_vars>>

Next ==
    \/ StartDataset
    \/ ValidateStep
    \/ ValidateDone
    \/ CopyStep
    \/ CopyDone
    \/ GenerateStep
    \/ ProcessDatasetReturn
    \/ OrchestrateReturn

Spec == Init /\ [][Next]_vars

(***************************************************************************)
(* The functions called on their own: one call on a directory drawn from a *)
(* bounded set.  call holds the arguments (and how the surroundings        *)
(* behaved), ret the value returned, fs0 the file system before the call.  *)
(***************************************************************************)
OrchIdle ==
    /\ dataset_episodes_list = <<>> /\ ds_idx = 1 /\ success_count = 0
    /\ run_result = "none" /\ processed = <<>>
    /\ PdInit

UnitDataset == CHOOSE ds \in DatasetNames : TRUE
UnitObsPath == SubPath(VideosPath(UnitDataset), "observation.images.front")
UnitDataPath == DataPath(UnitDataset)

DirWith(names) == [f \in names |-> 1]

\* names a camera folder may hold: episodes as the convention writes them,
\* an index that is no number, no index at all, an unpadded index, a video
\* left under its doubled extension, a negative index, and two names the
\* pattern episode_*.mp4 does not match
NamePool ==
    {EpisodeName(0, MP4), EpisodeName(1, MP4), EpisodeName(3, MP4),
     <<EPISODE, "x", MP4>>, <<EPISODE, MP4>>, <<EPISODE, "7", MP4>>,
     EpisodeName(4, MP4) \o <<MP4>>, <<EPISODE, "-", "2", MP4>>,
     EpisodeName(9, PARQUET), <<"x", MP4>>}

InitAlloc ==
    /\ \E names \in SUBSET NamePool :
          /\ Cardinality(names) <= MaxFiles
          /\ fs = [p \in {UnitObsPath} |-> DirWith(names)]
    /\ fs0 = fs
    /\ pc = "call"
    /\ OrchIdle
    /\ call = NoCall /\ ret = NoCall

\* get_next_episode_number(video_folder), glob listing the folder in any order
AllocCall ==
    /\ pc = "call"
    /\ \E existing_files \in Listings(GlobEpisodeMp4(fs[UnitObsPath])) :
          /\ call' = [fn |-> "get_next_episode_number", files |-> existing_files]
          /\ ret' = [fn |-> "get_next_episode_number",
                     val |-> get_next_episode_number(existing_files)]
    /\ pc' = "returned"
    /\ UNCHANGED <<fs, orch_vars, pd_vars>>

NextAlloc == AllocCall

SpecAlloc == InitAlloc /\ [][NextAlloc]_vars

\* indices a sidecar copy may be asked for
CopyIndices == 0..MaxEpisodes

InitCopy ==
    /\ \E S \in SUBSET CopyIndices : fs = [p \in {UnitDataPath} |-> SidecarDir(S)]
    /\ fs0 = fs
    /\ pc = "call"
    /\ OrchIdle
    /\ call = NoCall /\ ret = NoCall

\* copy_parquet_file(src_episode_num, dest_episode_num, data_folder)
CopyCall ==
    /\ pc = "call"
    /\ \E src \in CopyIndices, dest \in CopyIndices, outcome \in CopyOutcomes :
          LET r == copy_parquet_file(fs, src, dest, UnitDataPath, outcome)
          IN  /\ fs' = r.fs
              /\ call' = [fn |-> "copy_parquet_file", src |-> src, dest |-> dest,
                          outcome |-> outcome]
              /\ ret' = [fn |-> "copy_parquet_file", val |-> r.ret]
    /\ pc' = "returned"
    /\ UNCHANGED <<orch_vars, pd_vars>>

NextCopy == CopyCall

SpecCopy == InitCopy /\ [][NextCopy]_vars

\* the destination video of the call, and what its folder may hold before
AugOutput == EpisodeName(2, MP4)
AugBasename == SplitExtRoot(AugOutput)
AugTxt == AugBasename \o <<TXT>>
AugTxtLong == AugBasename \o <<"x", TXT>>
AugPool == {AugOutput, AugOutput \o <<MP4>>, AugTxt, AugTxtLong,
            EpisodeName(0, MP4), EpisodeName(1, TXT)}

AugEnvs ==
    [setup_raises : BOOLEAN, returncode : {0, 1}, writes : SUBSET {"video", "double", "txt"},
     size : {0, 1}, rename_raises : BOOLEAN, remove_fails : SUBSET {AugTxt, AugTxtLong}]

InitAugment ==
    /\ \E names \in SUBSET AugPool :
          /\ EpisodeName(0, MP4) \in names
          /\ fs = [p \in {UnitObsPath} |-> DirWith(names)]
    /\ fs0 = fs
    /\ pc = "call"
    /\ OrchIdle
    /\ call = NoCall /\ ret = NoCall

\* augment_video(prompt, input_video_path, output_video_path)
AugmentCall ==
    /\ pc = "call"
    /\ \E env \in AugEnvs :
          LET r == augment_video(fs, UnitObsPath, AugOutput, env)
          IN  /\ fs' = r.fs
              /\ call' = [fn |-> "augment_video", env |-> env]
              /\ ret' = [fn |-> "augment_video", val |-> r.ret]
    /\ pc' = "returned"
    /\ UNCHANGED <<orch_vars, pd_vars>>

NextAugment == AugmentCall

SpecAugment == InitAugment /\ [][NextAugment]_vars

(***************************************************************************)
(* extract_frames_from_video called on its own.                            *)
(***************************************************************************)
\* the largest num_frames tried
MaxFrames == 3

\* what ffprobe may print: a duration, nothing, or N/A
DurationTexts ==
    {<<"4", NEWLINE>>, <<"2", ".", "5", NEWLINE>>, <<"3">>, <<"0", ".", "0", NEWLINE>>,
     <<"-", "1", NEWLINE>>, <<"N/A", NEWLINE>>, <<NEWLINE>>}

FrameOutcomes == {"ok", "failed", "unreadable", "raises"}

SamplerEnvs(num_frames) ==
    [mkdtemp_raises : BOOLEAN, probe : {"ok", "failed", "raises"}, stdout : DurationTexts,
     frames : [1..num_frames -> FrameOutcomes], rmtree_raises : BOOLEAN]

InitExtract ==
    /\ fs = [p \in {UnitObsPath} |-> DirWith({EpisodeName(0, MP4)})]
    /\ fs0 = fs
    /\ pc = "call"
    /\ OrchIdle
    /\ call = NoCall /\ ret = NoCall

\* extract_frames_from_video(video_path, num_frames); log keeps the tools run
ExtractCall ==
    /\ pc = "call"
    /\ \E num_frames \in 0..MaxFrames :
          \E env \in SamplerEnvs(num_frames) :
              LET r == extract_frames_from_video(fs, num_frames, env)
              IN  /\ fs' = r.fs
                  /\ log' = r.requests
                  /\ call' = [fn |-> "extract_frames_from_video",
                              num_frames |-> num_frames, env |-> env]
                  /\ ret' = [fn |-> "extract_frames_from_video", val |-> r.ret]
    /\ pc' = "returned"
    /\ UNCHANGED <<orch_vars, fs0, dataset_name, prompt, n_episodes, observation_folders,
                   next_episode_num, i, cam_idx, total_success, total_attempts, pd_ret>>

NextExtract == ExtractCall

SpecExtract == InitExtract /\ [][NextExtract]_vars

(***************************************************************************)
(* analyze_video_with_openai and generate_video_prompt called on their own.*)
(***************************************************************************)
\* frames a caller may hand over: two images, None, an empty array
FramePool == {[idx |-> 0, size |-> 1], [idx |-> 1, size |-> 1], NoFrame, [idx |-> 2, size |-> 0]}

FrameLists == UNION {[1..len -> FramePool] : len \in 0..MaxFrames}

\* what the service may answer
ContentTexts == {<<"a robot arm stacks rings", NEWLINE>>, <<NEWLINE>>}

DescriberEnvs(len) ==
    [encode_fails : SUBSET (1..len), service : ServiceOutcomes, content : ContentTexts]

\* how the six extractions of generate_video_prompt may go
FramePatterns ==
    {[k \in 1..NumFrames |-> "ok"], [k \in 1..NumFrames |-> "failed"],
     [k \in 1..NumFrames |-> IF k % 2 = 1 THEN "ok" ELSE "unreadable"],
     [k \in 1..NumFrames |-> IF k = 3 THEN "raises" ELSE "ok"]}

PromptEnvs ==
    [api_key : BOOLEAN,
     sampler : [mkdtemp_raises : BOOLEAN, probe : {"ok", "failed"},
                stdout : {<<"4", NEWLINE>>, <<"N/A", NEWLINE>>},
                frames : FramePatterns, rmtree_raises : {FALSE}],
     describer : [encode_fails : {{}, {1}, 1..NumFrames}, service : ServiceOutcomes,
                  content : ContentTexts]]

InitDescribe ==
    /\ fs = [p \in {UnitObsPath} |-> DirWith({EpisodeName(0, MP4)})]
    /\ fs0 = fs
    /\ pc = "call"
    /\ OrchIdle
    /\ call = NoCall /\ ret = NoCall

\* analyze_video_with_openai(frames); log keeps the requests to the service
AnalyzeCall ==
    /\ pc = "call"
    /\ \E frames \in FrameLists :
          \E env \in DescriberEnvs(Len(frames)) :
              LET r == analyze_video_with_openai(frames, env)
              IN  /\ log' = r.requests
                  /\ call' = [fn |-> "analyze_video_with_openai", frames |-> frames, env |-> env]
                  /\ ret' = [fn |-> "analyze_video_with_openai", val |-> r.ret,
                             raised |-> r.raised]
    /\ pc' = "returned"
    /\ UNCHANGED <<fs, orch_vars, fs0, dataset_name, prompt, n_episodes, observation_folders,
                   next_episode_num, i, cam_idx, total_success, total_attempts, pd_ret>>

\* generate_video_prompt(video_path); log keeps the tools run and the
\* requests to the service
PromptCall ==
    /\ pc = "call"
    /\ \E env \in PromptEnvs :
          LET r == generate_video_prompt(fs, env)
          IN  /\ fs' = r.fs
              /\ log' = r.requests
              /\ call' = [fn |-> "generate_video_prompt", env |-> env]
              /\ ret' = [fn |-> "generate_video_prompt", val |-> r.ret, raised |-> r.raised]
    /\ pc' = "returned"
    /\ UNCHANGED <<orch_vars, fs0, dataset_name, prompt, n_episodes, observation_folders,
                   next_episode_num, i, cam_idx, total_success, total_attempts, pd_ret>>

NextDescribe ==
    \/ AnalyzeCall
    \/ PromptCall

SpecDescribe == InitDescribe /\ [][NextDescribe]_vars

(***************************************************************************)
(* The entry point: the script run with arguments argv (sys.argv[1:]) and  *)
(* the credential variable OPENAI_API_KEY "unset", "empty" or "set".  An   *)
(* argument is a sequence of tokens, the dataset name being one token.     *)
(* ret.val is the exit status of the process.                              *)
(***************************************************************************)
COLON == ":"

HelpFlags == {<<"-h">>, <<"--help">>}

\* the arguments a run may be given: well-formed ones, one without a colon,
\* counts that are no number, zero, negative, and the help flags
ArgPool ==
    {<<"so101_test", COLON, "1">>, <<"so101_test", COLON, "2">>, <<MissingDataset, COLON, "1">>,
     <<"so101_test">>, <<"so101_test", COLON, "x">>, <<"so101_test", COLON, "0">>,
     <<"so101_test", COLON, "-", "1">>} \cup HelpFlags

ArgVectors == UNION {[1..len -> ArgPool] : len \in 0..MaxDatasets}

KeyStates == {"unset", "empty", "set"}

\* ':' in arg
HasColon(arg) == \E k \in 1..Len(arg) : arg[k] = COLON

\* arg.split(':', 1): the name before the first colon, the text after it
SplitArg(arg) ==
    LET at == CHOOSE k \in 1..Len(arg) : arg[k] = COLON /\ \A m \in 1..(k - 1) : arg[m] # COLON
    IN  [dataset_name |-> IF at = 2 THEN arg[1] ELSE "",
         episodes_str |-> SubSeq(arg, at + 1, Len(arg))]

\* lines 222-235 on one argument: it is refused (exit status 1) when it has
\* no colon, or its count is no integer or not above 0
ArgRefused(arg) ==
    \/ ~HasColon(arg)
    \/ ~ParseInt(SplitArg(arg).episodes_str).ok
    \/ ParseInt(SplitArg(arg).episodes_str).val <= 0

\* dataset_episodes_list of lines 221-232, the arguments all being accepted
ParsedArgs(argv) ==
    [k \in 1..Len(argv) |-> <<SplitArg(argv[k]).dataset_name,
                              ParseInt(SplitArg(argv[k]).episodes_str).val>>]

\* os.getenv('OPENAI_API_KEY') is falsy (line 240)
KeyMissing(key) == key \in {"unset", "empty"}

\* the exit status of line 257
ExitStatus(success) == IF success THEN 0 ELSE 1

\* the dataset trees the runs of the entry point begin with
MainTrees ==
    {DatasetTree(ds, sidecars, [c \in {"observation.images.front"} |-> SourceIndices]) :
        ds \in DatasetNames, sidecars \in {SourceIndices, {0}}}

InitMain ==
    /\ fs \in MainTrees
    /\ fs0 = fs
    /\ pc = "main"
    /\ OrchIdle
    /\ \E argv \in ArgVectors, key \in KeyStates :
          call = [fn |-> "main", argv |-> argv, api_key |-> key]
    /\ ret = NoCall

\* the process ends with this exit status
Exit(status, how) ==
    /\ ret' = [fn |-> "main", val |-> status, how |-> how]
    /\ pc' = "exit"
    /\ UNCHANGED <<fs, call, orch_vars, pd_vars>>

\* the script is started: its imports run (line 13 imports video_processor,
\* whose line 15 builds the service client from OPENAI_API_KEY at module
\* level; the client library refuses to build a client without a key and
\* raises, which ends the process with a traceback and status 1), then main
\* up to the call of orchestrate_video_generation (lines 198-246)
MainStart ==
    /\ pc = "main"
    /\ \E client_raises \in (IF call.api_key = "unset" THEN BOOLEAN ELSE {FALSE}) :
          IF client_raises
          THEN Exit(1, "import")
          ELSE IF call.argv = <<>> \/ call.argv[1] \in HelpFlags
          THEN Exit(0, "usage")
          ELSE IF \E k \in 1..Len(call.argv) : ArgRefused(call.argv[k])
          THEN Exit(1, "argument")
          ELSE IF KeyMissing(call.api_key)
          THEN Exit(1, "credential")
          ELSE /\ dataset_episodes_list' = ParsedArgs(call.argv)
               /\ pc' = "orchestrate"
               /\ UNCHANGED <<fs, ds_idx, success_count, run_result, processed,
                              pd_vars, unit_vars>>

\* lines 246-257: orchestrate_video_generation has returned
MainExit ==
    /\ pc = "done"
    /\ Exit(ExitStatus(run_result = "True"), "run")

NextMain ==
    \/ MainStart
    \/ StartDataset
    \/ ValidateStep
    \/ ValidateDone
    \/ CopyStep
    \/ CopyDone
    \/ GenerateStep
    \/ ProcessDatasetReturn
    \/ OrchestrateReturn
    \/ MainExit

SpecMain == InitMain /\ [][NextMain]_vars

(***************************************************************************)
(* Properties of the functions called on their own.                        *)
(***************************************************************************)
Returned(fn) == pc = "returned" /\ ret.fn = fn

\* the index get_next_episode_number reads from a name
IndexOf(f) == ParseInt(StrRemove(StrRemove(f, EPISODE), MP4))

\* the indices of the files of a folder that match episode_*.mp4 and parse
ParsedIndices(dir) == {IndexOf(f).val : f \in {g \in DOMAIN dir : MatchesEpisodeMp4(g) /\ IndexOf(g).ok}}

\* C7: get_next_episode_number returns the largest index of the matching,
\* parsable file names plus one, 0 when there is none (4 for
\* episode_000000.mp4 and episode_000003.mp4), whatever order glob lists the
\* folder in; no episode file of the folder bears the index returned.
C7_NextEpisodeNumber ==
    Returned("get_next_episode_number") =>
        LET dir == fs[UnitObsPath]
            idx == ParsedIndices(dir)
        IN  /\ idx = {} => ret.val = 0
            /\ idx # {} => (ret.val - 1 \in idx /\ \A v \in idx : v < ret.val)
            /\ DOMAIN dir = {EpisodeName(0, MP4), EpisodeName(3, MP4)} => ret.val = 4
            /\ DOMAIN dir = {} => ret.val = 0
            /\ EpisodeName(ret.val, MP4) \notin DOMAIN dir
            /\ \A f \in DOMAIN dir : MatchesEpisodeMp4(f) /\ IndexOf(f).ok => IndexOf(f).val # ret.val

\* C7 witness: indices 0 and 3 beside a name that does not parse give 4
C7_Witness ==
    /\ Returned("get_next_episode_number")
    /\ DOMAIN fs[UnitObsPath] = {EpisodeName(0, MP4), EpisodeName(3, MP4), <<EPISODE, "x", MP4>>}
    /\ ret.val = 4

CopySrcName == EpisodeName(call.src, PARQUET)
CopyDestName == EpisodeName(call.dest, PARQUET)
CopySrcExisted == CopySrcName \in DOMAIN fs0[UnitDataPath]

\* C8 as claimed: a missing source gives failure and an untouched directory;
\* an existing source gives success and a destination with the source's content.
C8_Original ==
    Returned("copy_parquet_file") =>
        /\ ~CopySrcExisted => (ret.val = FALSE /\ fs = fs0)
        /\ CopySrcExisted =>
              /\ ret.val = TRUE
              /\ CopyDestName \in DOMAIN fs[UnitDataPath]
              /\ fs[UnitDataPath][CopyDestName] = fs0[UnitDataPath][CopySrcName]

\* C8 amended: a missing source gives failure and an untouched directory; an
\* existing source, a destination other than the source and a copy that does
\* not raise give success, a destination with the source's content and every
\* other file as it was; a copy that raises (as it always does when the
\* destination is the source itself) gives failure.
C8_CopySidecar ==
    Returned("copy_parquet_file") =>
        /\ ~CopySrcExisted => (ret.val = FALSE /\ fs = fs0)
        /\ (CopySrcExisted /\ call.src # call.dest /\ call.outcome = "copied") =>
              /\ ret.val = TRUE
              /\ CopyDestName \in DOMAIN fs[UnitDataPath]
              /\ fs[UnitDataPath][CopyDestName] = fs0[UnitDataPath][CopySrcName]
              /\ DOMAIN fs[UnitDataPath] = DOMAIN fs0[UnitDataPath] \cup {CopyDestName}
              /\ \A f \in DOMAIN fs0[UnitDataPath] \ {CopyDestName} :
                    fs[UnitDataPath][f] = fs0[UnitDataPath][f]
        /\ (CopySrcExisted /\ (call.src = call.dest \/ call.outcome # "copied")) =>
              ret.val = FALSE

\* C8 witness: sidecar 0 copied to the new index 2
C8_Witness ==
    /\ Returned("copy_parquet_file")
    /\ call.src = 0 /\ call.dest = 2
    /\ CopyDestName \notin DOMAIN fs0[UnitDataPath]
    /\ ret.val = TRUE
    /\ fs[UnitDataPath][CopyDestName] = SidecarContent(0)

\* the .txt files of a folder whose name starts with the destination's basename
MatchingTxt(dir) == {f \in DOMAIN dir : EndsWith(f, TXT) /\ StartsWith(f, AugBasename)}

AugToolWrote(kind) == kind \in call.env.writes
\* what the folder holds once the tool has exited
AugOutputPresent == AugOutput \in DOMAIN fs0[UnitObsPath] \/ AugToolWrote("video")
AugDoublePresent == (AugOutput \o <<MP4>>) \in DOMAIN fs0[UnitObsPath] \/ AugToolWrote("double")
AugTxtPresent == MatchingTxt(fs0[UnitObsPath]) \cup (IF AugToolWrote("txt") THEN {AugTxt} ELSE {})
AugExitZero == Returned("augment_video") /\ ~call.env.setup_raises /\ call.env.returncode = 0

\* C9 as claimed: exit status 0 and the expected output present give success
\* and no .txt file named after the destination's basename.
C9_Original ==
    (AugExitZero /\ AugOutputPresent) =>
        (ret.val = TRUE /\ MatchingTxt(fs[UnitObsPath]) = {})

\* C9 amended: exit status 0 and the expected output present give success,
\* and the .txt files named after the destination's basename that are left
\* are exactly those os.remove failed on.
C9_Cleanup ==
    (AugExitZero /\ AugOutputPresent) =>
        /\ ret.val = TRUE
        /\ MatchingTxt(fs[UnitObsPath]) = AugTxtPresent \cap call.env.remove_fails
        /\ AugOutput \in DOMAIN fs[UnitObsPath]

\* C9 witness: the tool wrote the video and its .txt, an older .txt lay
\* there too, and both are gone
C9_Witness ==
    /\ AugExitZero
    /\ AugToolWrote("video") /\ AugToolWrote("txt")
    /\ AugTxtLong \in DOMAIN fs0[UnitObsPath]
    /\ ret.val = TRUE
    /\ MatchingTxt(fs[UnitObsPath]) = {}

\* C10 as claimed: exit status 0, the expected path absent and the
\* doubled-extension path present give a rename into place and success.
C10_Original ==
    (AugExitZero /\ ~AugOutputPresent /\ AugDoublePresent) =>
        /\ ret.val = TRUE
        /\ AugOutput \in DOMAIN fs[UnitObsPath]
        /\ (AugOutput \o <<MP4>>) \notin DOMAIN fs[UnitObsPath]

\* C10 amended: in that case, when os.rename does not raise, the file is
\* renamed into place (content kept) and the call succeeds; when os.rename
\* raises, the call fails and both paths are as the tool left them.
C10_Rename ==
    (AugExitZero /\ ~AugOutputPresent /\ AugDoublePresent) =>
        LET double == AugOutput \o <<MP4>>
            dir == fs[UnitObsPath]
        IN  IF call.env.rename_raises
            THEN ret.val = FALSE /\ AugOutput \notin DOMAIN dir /\ double \in DOMAIN dir
            ELSE /\ ret.val = TRUE
                 /\ AugOutput \in DOMAIN dir
                 /\ double \notin DOMAIN dir
                 /\ dir[AugOutput] = IF AugToolWrote("double") THEN call.env.size
                                     ELSE fs0[UnitObsPath][double]

\* C10 witness: the tool left only the doubled-extension file and it was renamed
C10_Witness ==
    /\ AugExitZero /\ ~AugOutputPresent /\ AugToolWrote("double")
    /\ ~call.env.rename_raises
    /\ ret.val = TRUE
    /\ AugOutput \in DOMAIN fs[UnitObsPath]
    /\ (AugOutput \o <<MP4>>) \notin DOMAIN fs[UnitObsPath]

\* the files the tool wrote in this call
AugWritten == {ToolFile(VideoSaveName(AugOutput), k) : k \in call.env.writes}

\* the call is in one of the failure cases: an exception before or while the
\* tool is launched, a non-zero exit status, neither the expected nor the
\* doubled-extension file there after exit status 0, os.rename raising
AugFailureCase ==
    /\ Returned("augment_video")
    /\ \/ call.env.setup_raises
       \/ call.env.returncode # 0
       \/ ~AugOutputPresent /\ ~AugDoublePresent
       \/ ~AugOutputPresent /\ AugDoublePresent /\ call.env.rename_raises

\* C11: augment_video always returns a boolean (no exception leaves it), and
\* in each failure case it returns failure, having renamed nothing and
\* deleted no .txt file: the folder holds what it held before plus what the
\* tool wrote, every file of before that the tool did not rewrite is as it
\* was, and nothing at all changed when the exception came before the tool ran.
C11_Failure ==
    /\ Returned("augment_video") => ret.val \in BOOLEAN
    /\ AugFailureCase =>
          LET dir == fs[UnitObsPath]
              dir0 == fs0[UnitObsPath]
          IN  /\ ret.val = FALSE
              /\ DOMAIN fs = DOMAIN fs0
              /\ DOMAIN dir = DOMAIN dir0 \cup
                              (IF call.env.setup_raises THEN {} ELSE AugWritten)
              /\ \A f \in DOMAIN dir0 :
                    (call.env.setup_raises \/ f \notin AugWritten) => dir[f] = dir0[f]
              /\ \A f \in DOMAIN dir0 : EndsWith(f, TXT) => f \in DOMAIN dir
              /\ call.env.setup_raises => fs = fs0

\* C11 witness: the tool wrote a doubled-extension video and a .txt, then
\* exited non-zero: failure, both files still there under their names
C11_Witness ==
    /\ AugFailureCase
    /\ ~call.env.setup_raises /\ call.env.returncode = 1
    /\ AugToolWrote("double") /\ AugToolWrote("txt")
    /\ ~AugOutputPresent
    /\ AugTxtLong \in DOMAIN fs0[UnitObsPath]
    /\ ret.val = FALSE
    /\ {AugOutput \o <<MP4>>, AugTxt, AugTxtLong} \subseteq DOMAIN fs[UnitObsPath]
    /\ AugOutput \notin DOMAIN fs[UnitObsPath]

\* C12 as claimed: after a call that returned success the destination video
\* exists and its size is above 0, whatever the tool left in the folder.
C12_SuccessNonEmpty ==
    (Returned("augment_video") /\ ret.val = TRUE) =>
        /\ AugOutput \in DOMAIN fs[UnitObsPath]
        /\ fs[UnitObsPath][AugOutput] > 0

\* fractions num / den with den > 0
RatEq(a, b) == a.num * b.den = b.num * a.den
RatLess(a, b) == a.num * b.den < b.num * a.den

SamplerReturned == Returned("extract_frames_from_video")
\* the duration float() reads from what ffprobe printed
ProbedDuration == ParseFloat(Strip(call.env.stdout))
\* ffprobe ran, exited with status 0, and its duration parses and is above 0
DurationUsable ==
    /\ SamplerReturned /\ ~call.env.mkdtemp_raises
    /\ call.env.probe = "ok" /\ ProbedDuration.ok /\ ProbedDuration.num > 0
\* ffprobe failed, or its duration does not parse or is not above 0
DurationUnusable ==
    /\ SamplerReturned /\ ~call.env.mkdtemp_raises
    /\ (call.env.probe # "ok" \/ ~ProbedDuration.ok \/ ProbedDuration.num <= 0)
\* the extraction requests the call issued, in order
ExtractionRequests == SelectSeq(log, LAMBDA e : e.op = "ffmpeg")
\* the turns of the extraction loop at which ffmpeg could not be launched
RaisingTurns == {k \in 1..call.num_frames : call.env.frames[k] = "raises"}

\* the requests are the first `count` of the num_frames evenly spaced
\* timestamps: the k-th at (k-1) * d / num_frames, the first at 0, all below
\* d, increasing
EvenlySpaced(requests, count) ==
    /\ Len(requests) = count
    /\ \A k \in 1..Len(requests) :
          /\ RatEq(requests[k].ss, [num |-> (k - 1) * ProbedDuration.num,
                                    den |-> ProbedDuration.den * call.num_frames])
          /\ RatLess(requests[k].ss, ProbedDuration)
          /\ k = 1 => requests[k].ss.num = 0
          /\ k > 1 => RatLess(requests[k - 1].ss, requests[k].ss)

\* C13 as claimed: a usable duration gives exactly num_frames extraction
\* requests at the evenly spaced timestamps; an unusable one gives an empty
\* result and no extraction request.
C13_Original ==
    /\ DurationUsable => EvenlySpaced(ExtractionRequests, call.num_frames)
    /\ DurationUnusable => (ret.val = <<>> /\ ExtractionRequests = <<>>)

\* C13 amended: a usable duration gives the evenly spaced requests up to the
\* first one whose launch raises (all num_frames of them when none does);
\* when one raises the result is empty, otherwise it is the frames that were
\* extracted and loaded, in order; an unusable duration gives an empty
\* result and no extraction request.
C13_Timestamps ==
    /\ DurationUsable =>
          IF RaisingTurns = {}
          THEN /\ EvenlySpaced(ExtractionRequests, call.num_frames)
               /\ \A k \in 1..call.num_frames :
                     call.env.frames[k] = "ok" <=> \E j \in 1..Len(ret.val) : ret.val[j].idx = k - 1
               /\ \A j \in 2..Len(ret.val) : ret.val[j - 1].idx < ret.val[j].idx
          ELSE /\ EvenlySpaced(ExtractionRequests,
                               (CHOOSE k \in RaisingTurns : \A m \in RaisingTurns : k <= m) - 1)
               /\ ret.val = <<>>
    /\ DurationUnusable => (ret.val = <<>> /\ ExtractionRequests = <<>>)

\* C13 witness: three frames asked of a video of 2.5 s: requests at 0, 2.5/3
\* and 5/3; the second extraction failed, the other two frames came back
C13_Witness ==
    /\ DurationUsable
    /\ call.num_frames = 3
    /\ call.env.stdout = <<"2", ".", "5", NEWLINE>>
    /\ call.env.frames = <<"ok", "failed", "ok">>
    /\ Len(ExtractionRequests) = 3
    /\ ExtractionRequests[1].ss.num = 0
    /\ RatEq(ExtractionRequests[2].ss, [num |-> 5, den |-> 6])
    /\ RatEq(ExtractionRequests[3].ss, [num |-> 5, den |-> 3])
    /\ ret.val = <<[idx |-> 0, size |-> 1], [idx |-> 2, size |-> 1]>>

\* C14 as claimed: when the call has returned, the temporary directory it
\* made is gone.
C14_Original ==
    SamplerReturned => TempDir \notin DOMAIN fs

\* C14 amended: when the call has returned, by whatever path, the temporary
\* directory it made is gone unless shutil.rmtree raised (then it is still
\* there); nothing else in the file system has changed.
C14_TempDirRemoved ==
    SamplerReturned =>
        /\ TempDir \in DOMAIN fs <=> (~call.env.mkdtemp_raises /\ call.env.rmtree_raises)
        /\ DOMAIN fs \ {TempDir} = DOMAIN fs0
        /\ \A p \in DOMAIN fs0 : fs[p] = fs0[p]

\* C14 witness: a frame was written into the temporary directory, the next
\* extraction raised, and the directory is gone on return
C14_Witness ==
    /\ DurationUsable
    /\ call.env.frames = <<"ok", "raises", "ok">>
    /\ ~call.env.rmtree_raises
    /\ Len(ExtractionRequests) = 1
    /\ ret.val = <<>>
    /\ TempDir \notin DOMAIN fs

AnalyzeReturned == Returned("analyze_video_with_openai")
\* the positions of the frames handed over that are images and did encode
EncodedPositions ==
    {k \in 1..Len(call.frames) :
        call.frames[k] # NoFrame /\ call.frames[k].size > 0 /\ k \notin call.env.encode_fails}
\* the j-th of them
NthEncoded(j) ==
    CHOOSE k \in EncodedPositions : Cardinality({m \in EncodedPositions : m <= k}) = j

\* C15: with no frames, or with no frame that encodes, analyze_video_with_openai
\* makes no request to the service and returns the fixed fallback string;
\* otherwise it makes exactly one request, holding every frame that encoded
\* (in order) and nothing else, and no second one whatever came of the first.
C15_SingleRequest ==
    AnalyzeReturned =>
        IF call.frames = <<>> \/ EncodedPositions = {}
        THEN log = <<>> /\ ret.val = FallbackNoFrames
        ELSE /\ Len(log) = 1
             /\ log[1].op = "chat"
             /\ Len(log[1].frames) = Cardinality(EncodedPositions)
             /\ \A j \in 1..Len(log[1].frames) :
                   log[1].frames[j].idx = call.frames[NthEncoded(j)].idx

\* C15 witness: three frames, the second did not encode, the request failed
\* on the network: one request with the two others, and the fallback
C15_Witness ==
    /\ AnalyzeReturned
    /\ call.frames = <<[idx |-> 0, size |-> 1], [idx |-> 1, size |-> 1], [idx |-> 0, size |-> 1]>>
    /\ call.env.encode_fails = {2}
    /\ call.env.service = "network"
    /\ Len(log) = 1
    /\ Len(log[1].frames) = 2
    /\ ret.val = FallbackPrompt

(***************************************************************************)
(* Properties of the dataset orchestrator.                                 *)
(***************************************************************************)
\* process_dataset is running, or has run and nothing was started since
InCall == pc \in {"validate", "copy", "generate"}
Ended == pc \in {"orchestrate", "done"} /\ processed # <<>>
\* the call got as far as the validation loop
ValidationBegan == (InCall \/ Ended) /\ observation_folders # <<>>

LogAt(op) == {k \in 1..Len(log) : log[k].op = op}
PairEvents == LogAt("gen") \cup LogAt("skip")

\* some source sidecar of the request was missing when the call began
SourceMissing ==
    \E k \in 0..(n_episodes - 1) : ~Exists(fs0, DataPath(dataset_name), EpisodeName(k, PARQUET))

\* C1: when a source sidecar of 0..n-1 is missing, the call never reaches
\* the copy or the generation phase: it copies no sidecar, visits no
\* (episode, camera) pair, leaves the file system as it found it, and once
\* validation has begun it ends by returning failure.
C1_ValidationAbort ==
    ((InCall \/ Ended) /\ SourceMissing) =>
        /\ pc \notin {"copy", "generate"}
        /\ LogAt("copy") = {} /\ PairEvents = {}
        /\ fs = fs0
        /\ pd_ret # "True"
        /\ (ValidationBegan /\ Ended) => (pd_ret = "False" /\ LogAt("abort") # {})

\* C1 witness: two episodes asked, sidecar 0 there and sidecar 1 missing:
\* aborted at index 1
C1_Witness ==
    /\ Ended /\ ValidationBegan /\ pd_ret = "False"
    /\ n_episodes = 2
    /\ Exists(fs0, DataPath(dataset_name), EpisodeName(0, PARQUET))
    /\ log = <<[op |-> "abort", src |-> 1]>>

\* C2: the phases follow VALIDATE_SOURCES, COPY_SIDECARS, GENERATE_VIDEOS,
\* DONE.  Copies happen only after validation found every source sidecar;
\* when the first (episode, camera) pair is visited all n sidecars have been
\* copied, in order; an abort is the only thing its call did; a call that
\* began to copy runs to the end of the generation loops.
C2_PhaseOrder ==
    ValidationBegan =>
        /\ LogAt("copy") # {} => ~SourceMissing
        /\ \A k \in LogAt("copy") : k <= n_episodes /\ log[k].src = k - 1
        /\ pc = "validate" => log = <<>>
        /\ pc = "copy" => (PairEvents = {} /\ LogAt("abort") = {} /\ Len(log) = i)
        /\ pc = "generate" => Cardinality(LogAt("copy")) = n_episodes
        /\ \A g \in PairEvents :
              /\ g > n_episodes
              /\ \A k \in 0..(n_episodes - 1) : \E c \in LogAt("copy") : c < g /\ log[c].src = k
        /\ LogAt("abort") # {} => (Len(log) = 1 /\ Ended /\ pd_ret = "False")
        /\ (Ended /\ LogAt("abort") = {}) =>
              /\ pd_ret \in {"True", "False"}
              /\ Cardinality(LogAt("copy")) = n_episodes
              /\ Cardinality(PairEvents) = n_episodes * Len(observation_folders)

\* C2 witness: two episodes and two cameras seen through all four phases
C2_Witness ==
    /\ Ended /\ n_episodes = 2 /\ Len(observation_folders) = 2
    /\ Len(log) = 6
    /\ log[1].op = "copy" /\ log[2].op = "copy"
    /\ log[3].op = "gen" /\ log[6].op = "gen"

\* the next free index of the first camera folder when the call began
NextAtStart ==
    LET idx == ParsedIndices(fs0[SubPath(VideosPath(dataset_name), observation_folders[1])])
    IN  IF idx = {} THEN 0 ELSE (CHOOSE v \in idx : \A w \in idx : w <= v) + 1

\* C3: source episode k goes to destination NextAtStart + k, for its sidecar
\* and for the video of every camera; next_episode_num is that index from
\* the end of validation on; a sidecar copied and a video generated lie
\* under the name of that destination.
C3_DestinationBlock ==
    (ValidationBegan /\ (pc \in {"copy", "generate"} \/ (Ended /\ LogAt("abort") = {}))) =>
        \A next \in {NextAtStart} :
            /\ next_episode_num = next
            /\ \A k \in LogAt("copy") \cup LogAt("gen") :
                  /\ log[k].src \in 0..(n_episodes - 1)
                  /\ log[k].dest = next + log[k].src
            /\ \A k \in LogAt("copy") :
                  log[k].ok => Exists(fs, DataPath(dataset_name),
                                      EpisodeName(next + log[k].src, PARQUET))
            /\ \A k \in LogAt("gen") :
                  log[k].ok => Exists(fs, SubPath(VideosPath(dataset_name), log[k].cam),
                                      EpisodeName(next + log[k].src, MP4))
            /\ \A a, b \in LogAt("gen") : log[a].src = log[b].src => log[a].dest = log[b].dest

\* C3 witness: both cameras hold episodes 0 and 1; source 1 went to index 3
\* in the sidecars and in both camera folders
C3_Witness ==
    /\ Ended /\ n_episodes = 2 /\ Len(observation_folders) = 2
    /\ NextAtStart = 2
    /\ \E k \in LogAt("copy") : log[k].src = 1 /\ log[k].dest = 3 /\ log[k].ok
    /\ \A c \in CameraFolders : \E k \in LogAt("gen") :
          log[k].cam = c /\ log[k].src = 1 /\ log[k].dest = 3 /\ log[k].ok

\* C4 as claimed: after the call, every video it generated has a sidecar of
\* the same index in the data directory.
C4_SidecarForEveryVideo ==
    Ended =>
        \A k \in LogAt("gen") :
            log[k].ok => Exists(fs, DataPath(dataset_name), EpisodeName(log[k].dest, PARQUET))

\* the generations the call attempted that succeeded
GenOk == {k \in LogAt("gen") : log[k].ok}

\* the counters against what the call did
C5_CountsState ==
    /\ total_attempts = Cardinality(LogAt("gen"))
    /\ total_success = Cardinality(GenOk)
    /\ total_success <= total_attempts
    /\ (Ended /\ pd_ret = "True") => (ValidationBegan /\ GenOk = LogAt("gen"))
    /\ (Ended /\ ValidationBegan /\ pd_ret = "False" /\ LogAt("abort") = {}) => GenOk # LogAt("gen")

\* one visit of an (episode, camera) pair: it is counted as an attempt
\* exactly when its source video exists at that moment, it is otherwise
\* skipped with nothing changed, and it is counted as a success exactly when
\* augment_video returned success
C5_CountsStep ==
    (pc = "generate" /\ pc' = "generate") =>
        LET obs_folder == observation_folders[cam_idx]
            src_exists == Exists(fs, SubPath(VideosPath(dataset_name), obs_folder),
                                 EpisodeName(i, MP4))
            last == log'[Len(log')]
        IN  /\ Len(log') = Len(log) + 1
            /\ last.src = i /\ last.cam = obs_folder
            /\ src_exists <=> last.op = "gen"
            /\ ~src_exists <=> last.op = "skip"
            /\ total_attempts' = total_attempts + (IF src_exists THEN 1 ELSE 0)
            /\ ~src_exists => (total_success' = total_success /\ fs' = fs)
            /\ src_exists => total_success' = total_success + (IF last.ok THEN 1 ELSE 0)

\* C5: total_attempts counts the (episode, camera) pairs whose source video
\* exists when the pair is visited (the others are skipped and not counted),
\* total_success those for which augment_video returned success, so
\* total_success <= total_attempts throughout, and the dataset is reported
\* successful only if every attempted generation succeeded.
C5_Counts == []C5_CountsState /\ [][C5_CountsStep]_vars

\* C5 witness: a call with a skipped pair, two successes and one failure
C5_Witness ==
    /\ Ended /\ pd_ret = "False"
    /\ LogAt("skip") # {}
    /\ total_attempts = 3 /\ total_success = 2

\* the datasets whose call returned success
ProcessedOk == {k \in 1..Len(processed) : processed[k].ret = "True"}

\* C6: the datasets are handed to process_dataset once each, in the order of
\* the list, whatever happened to the earlier ones; a call that passed
\* validation visits every (episode, camera) pair, episodes outer and
\* cameras inner, whatever the earlier generations returned; the run
\* succeeds iff as many datasets succeeded as the list holds.
C6_RunContinues ==
    /\ Len(processed) <= Len(dataset_episodes_list)
    /\ \A k \in 1..Len(processed) : processed[k].name = dataset_episodes_list[k][1]
    /\ \A k \in 1..(Len(processed) - 1) : processed[k].ret \in {"True", "False", "raised"}
    /\ success_count = Cardinality(ProcessedOk)
    /\ InCall => (Len(processed) = ds_idx /\ processed[ds_idx].ret = "running")
    /\ pc = "orchestrate" => Len(processed) = ds_idx - 1
    /\ pc = "done" =>
          /\ Len(processed) = Len(dataset_episodes_list)
          /\ processed[Len(processed)].ret \in {"True", "False", "raised"}
          /\ run_result = "True" <=> success_count = Len(dataset_episodes_list)
          /\ run_result = "True" <=> ProcessedOk = 1..Len(dataset_episodes_list)
          /\ run_result \in {"True", "False"}
    /\ (ValidationBegan /\ (pc = "generate" \/ (Ended /\ LogAt("abort") = {}))) =>
          LET cams == Len(observation_folders)
              visited == IF pc = "generate" THEN i * cams + cam_idx - 1 ELSE n_episodes * cams
          IN  /\ Len(log) = n_episodes + visited
              /\ \A e \in 1..visited :
                    /\ log[n_episodes + e].op \in {"gen", "skip"}
                    /\ log[n_episodes + e].src = (e - 1) \div cams
                    /\ log[n_episodes + e].cam = observation_folders[((e - 1) % cams) + 1]

\* C6 witness: the first dataset raised, the second was still processed: its
\* first generation failed, a later one succeeded, and the run failed
C6_Witness ==
    /\ pc = "done" /\ run_result = "False"
    /\ Len(dataset_episodes_list) = 2
    /\ processed[1].ret = "raised" /\ processed[2].ret = "False"
    /\ \E a, b \in LogAt("gen") : a < b /\ ~log[a].ok /\ log[b].ok

\* six frames as extract_frames_from_video returns them
SixFrames == [k \in 1..NumFrames |-> [idx |-> k - 1, size |-> 1]]

\* whatever goes wrong with the request, analyze_video_with_openai hands
\* back the fallback text and no exception
ServiceErrorsCaught ==
    \A service \in ServiceOutcomes \ {"ok"} :
        \A described \in {analyze_video_with_openai(SixFrames,
                              [encode_fails |-> {}, service |-> service,
                               content |-> <<NEWLINE>>])} :
            /\ ~described.raised
            /\ described.ret = FallbackPrompt
            /\ Len(described.requests) = 1

\* no exception leaves process_dataset once it has begun to copy, and every
\* generation was given a text as its prompt
C16_State ==
    /\ pc = "generate" => ServiceErrorsCaught
    /\ pd_ret = "raised" => log = <<>>
    /\ LogAt("gen") # {} => prompt \in {<<"a robot arm stacks rings">>, FallbackPrompt}

\* a pair whose source video exists: whatever came of the request to the
\* service, a prompt is there and augment_video is called with it
C16_Step ==
    (/\ pc = "generate" /\ ~GenerateLoopDone(i, n_episodes)
     /\ Exists(fs, SubPath(VideosPath(dataset_name), observation_folders[cam_idx]),
               EpisodeName(i, MP4))) =>
        /\ pc' = "generate"
        /\ prompt' \in {<<"a robot arm stacks rings">>, FallbackPrompt}
        /\ Len(log') = Len(log) + 1
        /\ log'[Len(log')].op = "gen"
        /\ log'[Len(log')].src = i
        /\ log'[Len(log')].cam = observation_folders[cam_idx]

\* C16: an error of the vision-language service (network, quota, malformed
\* answer) is caught by analyze_video_with_openai, which returns a fallback
\* text; generate_video_prompt therefore always yields a text, no exception
\* leaves process_dataset from there, and augment_video is called for every
\* (episode, camera) pair whose source video exists, whether the service
\* answered or failed.
C16_ServiceFailure == []C16_State /\ [][C16_Step]_vars

\* C16 witness: the service failed, the fallback became the prompt, and the
\* generation made with it succeeded
C16_Witness ==
    /\ pc = "generate"
    /\ prompt = FallbackPrompt
    /\ log # <<>>
    /\ log[Len(log)].op = "gen" /\ log[Len(log)].ok

\* the process has ended
Exited == pc = "exit" /\ ret.fn = "main"
\* no argument, or a help flag first
UsageAsked == call.argv = <<>> \/ call.argv[1] \in HelpFlags
\* some argument has no colon, or a count that is no positive integer
SomeArgMalformed ==
    \E k \in 1..Len(call.argv) :
        \/ \A m \in 1..Len(call.argv[k]) : call.argv[k][m] # COLON
        \/ LET count == ParseInt(SplitArg(call.argv[k]).episodes_str)
           IN  ~count.ok \/ count.val <= 0
\* nothing was done to any dataset
NothingProcessed == processed = <<>> /\ log = <<>> /\ fs = fs0 /\ pd_ret = "none"

\* C17 as claimed: the exit status is 0 when no argument or a help flag is
\* given; otherwise 1 on a malformed argument or a missing credential, with
\* no dataset touched; otherwise 0 exactly when every dataset succeeded.
C17_ExitStatus ==
    Exited =>
        /\ ret.val \in {0, 1}
        /\ UsageAsked => (ret.val = 0 /\ NothingProcessed)
        /\ (~UsageAsked /\ (SomeArgMalformed \/ call.api_key # "set")) =>
              (ret.val = 1 /\ NothingProcessed)
        /\ (~UsageAsked /\ ~SomeArgMalformed /\ call.api_key = "set") =>
              /\ Len(processed) = Len(call.argv)
              /\ ret.val = 0 <=> ProcessedOk = 1..Len(call.argv)
              /\ ret.val = 1 <=> ProcessedOk # 1..Len(call.argv)

\* C18 as claimed: every sidecar and every video the call wrote went to a
\* path that was absent when the call began, and the destination block
\* next..next+n-1 has no index in common with the sources 0..n-1.
C18_NoOverwrite ==
    (ValidationBegan /\ (pc \in {"copy", "generate"} \/ (Ended /\ LogAt("abort") = {}))) =>
        /\ \A k \in LogAt("copy") :
              log[k].ok => ~Exists(fs0, DataPath(dataset_name), EpisodeName(log[k].dest, PARQUET))
        /\ \A k \in LogAt("gen") :
              log[k].ok => ~Exists(fs0, SubPath(VideosPath(dataset_name), log[k].cam),
                                   EpisodeName(log[k].dest, MP4))
        /\ \A d \in next_episode_num..(next_episode_num + n_episodes - 1) :
              d \notin 0..(n_episodes - 1)

\* the call before the current one, when it was for the same dataset
PreviousCalls ==
    {k \in 1..(Len(processed) - 1) : k = Len(processed) - 1 /\ processed[k].name = dataset_name}

\* C19 as claimed: when process_dataset is called twice in a row on one
\* dataset, the destination block of the second call starts above every
\* index at which the first call wrote a sidecar or a video.
C19_NoReuse ==
    (ValidationBegan /\ pc \in {"copy", "generate"}) =>
        \A k \in PreviousCalls : \A d \in processed[k].used : next_episode_num > d

====
